---- MODULE Spec2Model ----
(***************************************************************************)
(* A model of the live-session hook of src/hooks/useGeminiLive.ts (the     *)
(* consolidated draft, lines 294-673): connect(), disconnect(), the        *)
(* transport callbacks onopen / onmessage / onclose / onerror, the wake    *)
(* lock helpers and the playback scheduling of inbound audio.              *)
(*                                                                         *)
(* JavaScript runs one handler at a time; a handler is split into one      *)
(* action per stretch of code between two awaits.  A call of connect() is  *)
(* numbered by its position among the calls (1..MaxCalls); the objects a   *)
(* call creates (its transport, its AudioContext, its nodes, its stream,   *)
(* its wake-lock sentinel) carry the call's number, and a ref holds the    *)
(* number of the object it points to, 0 for null.                          *)
(***************************************************************************)
EXTENDS Integers, Sequences, FiniteSets, TLC

\* ---------------------------------------------------------------- bounds
MaxCalls == 2          \* connect() calls in one behaviour
MaxMsgs == 3           \* inbound messages handled in one behaviour
MaxTime == 3           \* ticks of an AudioContext's clock
MaxDur == 2            \* longest audio buffer, in ticks
MaxLen == 4            \* longest capture frame, in samples
MaxSample == 2         \* sample values 1..MaxSample (0 is a zero-filled slot)
MaxRate == 4           \* sample rates 1..MaxRate, in units of a base rate
MaxVis == 2            \* runs of the visibility handler in one behaviour
MaxFrames == 3         \* capture frames delivered in one behaviour
MaxEmit == 4           \* log entries emitted on top of a restored log

\* ------------------------------------------------------ program constants
LogCap == 50           \* addLog keeps the last 50 entries: .slice(-50)

Calls == 1..MaxCalls
Msgs == 1..MaxMsgs
Vis == 1..MaxVis
\* Wake-lock sentinels: one per requestWakeLock of an onopen, one per run of
\* the visibility handler.
Locks == 1..(MaxCalls + MaxVis)
NoEpoch == 0           \* disconnect(): sessionIdRef.current = 0

VARIABLES
    \* React state and refs of the hook (lines 314-351)
    connectionState, isConnectedRef, sessionIdRef, logs, analyser, volume,
    audioContextRef, audioSourceRef, processorNodeRef, analyserRef,
    streamRef, sessionRef, wakeLockRef,
    \* the objects behind the refs
    transport,      \* [Calls -> "none" | "opening" | "open" | "closing" | "closed"]
    ctxState,       \* [Calls -> "none" | "suspended" | "running" | "closed"]
    stream,         \* [Calls -> "none" | "live" | "stopped"]
    wired,          \* [Calls -> SUBSET {"source", "processor", "analyser"}]: connected nodes
    lock,           \* [Locks -> "none" | "held" | "released"]: wake-lock sentinels
    threw,          \* the last disconnect() ended by an exception
    \* the wall clock read by Date.now()
    now,
    \* one connect() coroutine and one onopen coroutine per call
    cpc,            \* [Calls -> "idle" | "ignored" | "cred" | "resume" | "open" | "done"]
    capturedState,  \* the connectionState the call's closure captured
    currentSessionId, \* the call's const currentSessionId (NoEpoch before line 480)
    opc,            \* [Calls -> "none" | "delay" | "aborted" | "wake" | "mic" | "done"]
    \* playback and transcripts (lines 347-351)
    nextStartTimeRef, sourcesRef, currentInputRef, currentOutputRef,
    ctxTime,        \* [Calls -> 0..MaxTime]: currentTime of the call's AudioContext
    msgs,           \* [Msgs -> the onmessage coroutine handling that message]
    src,            \* [Msgs -> the AudioBufferSourceNode made for that message]
    interrupts,     \* interruption messages handled so far
    \* one capture frame in onaudioprocess (lines 555-576)
    inputData,      \* e.inputBuffer.getChannelData(0), a sequence of samples
    sampleRate,     \* ctx.sampleRate
    inputSampleRate, \* AUDIO_CONFIG.inputSampleRate
    processData,    \* the samples handed to createPcmBlob
    resampled,      \* downsampleBuffer has been applied to the frame
    frames,         \* the sendRealtimeInput calls so far: transport and outcome
    audioprocess,   \* the calls whose processor has an audioprocess event queued
    \* the visibility handler (lines 408-417)
    visible,        \* document.visibilityState === 'visible'
    vpc,            \* [Vis -> "idle" | "wake" | "resume" | "done"]: the handler's runs
    vctx            \* [Vis -> the context a run is resuming, 0 for none]

sessVars == <<connectionState, isConnectedRef, sessionIdRef, analyser, volume,
              audioContextRef, audioSourceRef, processorNodeRef, analyserRef,
              streamRef, sessionRef, wakeLockRef,
              transport, ctxState, stream, wired, lock, threw>>
coVars == <<cpc, capturedState, currentSessionId, opc>>
playVars == <<nextStartTimeRef, sourcesRef, currentInputRef, currentOutputRef,
              ctxTime, msgs, src, interrupts>>
capVars == <<inputData, sampleRate, inputSampleRate, processData, resampled, frames,
             audioprocess>>
visVars == <<visible, vpc, vctx>>
vars == <<sessVars, logs, now, coVars, playVars, capVars, visVars>>

\* ------------------------------------------------------------------ logs
SysLog(text) == [role |-> "system", text |-> text]

\* The entry emitted at clock reading t: { role, text, timestamp: new Date() }.
Roles == <<"user", "model", "system">>
LogEntry(t) == [role |-> Roles[(t % 3) + 1], text |-> t, timestamp |-> t]

\* An addLog that keeps the first 50 entries instead of the last.
addLogKeepFirst(prev, entry) ==
    LET all == Append(prev, entry)
    IN  IF Len(all) > LogCap THEN SubSeq(all, 1, LogCap) ELSE all

\* addLog: [...prev, entry].slice(-50)
addLog(prev, entry) ==
    LET all == Append(prev, entry)
    IN  IF Len(all) > LogCap THEN SubSeq(all, Len(all) - LogCap + 1, Len(all)) ELSE all

\* ------------------------------------------------------------- snapshot
\* The part of the state disconnect() works on, as one record.
Snapshot ==
    [connectionState |-> connectionState, isConnectedRef |-> isConnectedRef,
     sessionIdRef |-> sessionIdRef, analyser |-> analyser, volume |-> volume,
     audioContextRef |-> audioContextRef, audioSourceRef |-> audioSourceRef,
     processorNodeRef |-> processorNodeRef, analyserRef |-> analyserRef,
     streamRef |-> streamRef, sessionRef |-> sessionRef, wakeLockRef |-> wakeLockRef,
     transport |-> transport, ctxState |-> ctxState, stream |-> stream,
     wired |-> wired, lock |-> lock, threw |-> threw]

Install(s) ==
    /\ connectionState' = s.connectionState
    /\ isConnectedRef' = s.isConnectedRef
    /\ sessionIdRef' = s.sessionIdRef
    /\ analyser' = s.analyser
    /\ volume' = s.volume
    /\ audioContextRef' = s.audioContextRef
    /\ audioSourceRef' = s.audioSourceRef
    /\ processorNodeRef' = s.processorNodeRef
    /\ analyserRef' = s.analyserRef
    /\ streamRef' = s.streamRef
    /\ sessionRef' = s.sessionRef
    /\ wakeLockRef' = s.wakeLockRef
    /\ transport' = s.transport
    /\ ctxState' = s.ctxState
    /\ stream' = s.stream
    /\ wired' = s.wired
    /\ lock' = s.lock
    /\ threw' = s.threw

\* ------------------------------------------------------------ disconnect
ReleaseSteps == {"transport", "stream", "source", "processor", "analyser", "context", "wakeLock"}

\* A disconnect() that wraps only the transport close in a try/catch.
GuardedTransportOnly(step) == step = "transport"

\* Whether a release step of disconnect() sits in its own try/catch (lines 425-431).
Guarded(step) == TRUE

\* WebSocket close(): an open or opening socket starts closing, its close event
\* still to come; a closing or closed one is left alone.
Closed(st) == IF st \in {"open", "opening"} THEN "closing" ELSE st

\* `if (ref) { try { release } catch (e) { } ref = null }`: a release that throws
\* inside its try leaves the resource as it was and the ref is still cleared; one
\* that throws outside a try ends disconnect() there.
ReleaseStep(s, step, fails, ref, released) ==
    IF s.threw \/ s[ref] = 0 THEN s
    ELSE IF step \in fails
         THEN IF Guarded(step) THEN [s EXCEPT ![ref] = 0] ELSE [s EXCEPT !.threw = TRUE]
         ELSE [released EXCEPT ![ref] = 0]

\* releaseWakeLock (lines 397-406), called without await: the sentinel's release()
\* releases at once and resolves; a rejection is caught inside and leaves the ref.
ReleaseWakeLock(s, fails) ==
    IF s.threw \/ s.wakeLockRef = 0 \/ "wakeLock" \in fails THEN s
    ELSE [s EXCEPT !.lock[s.wakeLockRef] = "released", !.wakeLockRef = 0]

\* disconnect() (lines 419-437) on snapshot s, the release steps in `fails` throwing.
\* Each step works on the one result r of the step before it.
Teardown(s, fails) ==
    LET S0 == {[s EXCEPT !.isConnectedRef = FALSE, !.sessionIdRef = NoEpoch, !.threw = FALSE]}
        S1 == {ReleaseStep(r, "transport", fails, "sessionRef",
                   [r EXCEPT !.transport[r.sessionRef] = Closed(@)]) : r \in S0}
        S2 == {ReleaseStep(r, "stream", fails, "streamRef",
                   [r EXCEPT !.stream[r.streamRef] = "stopped"]) : r \in S1}
        S3 == {ReleaseStep(r, "source", fails, "audioSourceRef",
                   [r EXCEPT !.wired[r.audioSourceRef] = @ \ {"source"}]) : r \in S2}
        S4 == {ReleaseStep(r, "processor", fails, "processorNodeRef",
                   [r EXCEPT !.wired[r.processorNodeRef] = @ \ {"processor"}]) : r \in S3}
        S5 == {ReleaseStep(r, "analyser", fails, "analyserRef",
                   [r EXCEPT !.wired[r.analyserRef] = @ \ {"analyser"}]) : r \in S4}
        S6 == {ReleaseStep(r, "context", fails, "audioContextRef",
                   [r EXCEPT !.ctxState[r.audioContextRef] = "closed"]) : r \in S5}
        S7 == {ReleaseWakeLock(r, fails) : r \in S6}
        S8 == {IF r.threw THEN r
               ELSE [r EXCEPT !.connectionState = "DISCONNECTED", !.analyser = 0, !.volume = 0]
               : r \in S7}
    IN  CHOOSE r \in S8 : TRUE

\* disconnect() called by the application (the button, the unmount effect).
Disconnect ==
    /\ Install(Teardown(Snapshot, {}))
    /\ UNCHANGED <<logs, now, coVars, playVars>>
    /\ UNCHANGED <<capVars, visVars>>

\* The handle each release step works on.
HandleOf(step) ==
    CASE step = "transport" -> "sessionRef"
      [] step = "stream" -> "streamRef"
      [] step = "source" -> "audioSourceRef"
      [] step = "processor" -> "processorNodeRef"
      [] step = "analyser" -> "analyserRef"
      [] step = "context" -> "audioContextRef"
      [] step = "wakeLock" -> "wakeLockRef"

\* The release steps disconnect() attempts on s: those whose handle is set
\* (`if (ref)`); only these can throw.
Attempted(s) == {step \in ReleaseSteps : s[HandleOf(step)] # 0}

\* disconnect() with some of its release steps throwing.
DisconnectFaulty ==
    /\ \E fails \in (SUBSET Attempted(Snapshot)) \ {{}} : Install(Teardown(Snapshot, fails))
    /\ UNCHANGED <<logs, now, coVars, playVars>>
    /\ UNCHANGED <<capVars, visVars>>

\* --------------------------------------------------------------- connect
\* The next call number: calls are numbered in the order they are made.
NextCall == IF \E a \in Calls : cpc[a] = "idle"
            THEN CHOOSE a \in Calls : cpc[a] = "idle" /\ \A b \in Calls : b < a => cpc[b] # "idle"
            ELSE 0

\* A guard that forgets the state test and looks at the live flag alone.
ConnectGuardLiveOnly(state, live) == live

\* The "Strict Atomic Guard" (lines 441 and 475): TRUE when the call is ignored.
ConnectGuard(state, live) == state # "DISCONNECTED" \/ live

\* connect() up to its first await (lines 439-457).  The credential query is a
\* network round trip: the wall clock moves on before it settles.
Connect(a) ==
    /\ a = NextCall
    /\ IF ConnectGuard(connectionState, isConnectedRef)
       THEN /\ cpc' = [cpc EXCEPT ![a] = "ignored"]
            /\ UNCHANGED <<sessVars, logs, now, capturedState, currentSessionId, opc>>
       ELSE /\ cpc' = [cpc EXCEPT ![a] = "cred"]
            /\ capturedState' = [capturedState EXCEPT ![a] = connectionState]
            /\ logs' = addLog(logs, SysLog("Obtendo permissao de acesso..."))
            /\ Install([Snapshot EXCEPT !.connectionState = "CONNECTING"])
            /\ now' = now + 1
            /\ UNCHANGED <<currentSessionId, opc>>
    /\ UNCHANGED playVars
    /\ UNCHANGED <<capVars, visVars>>

\* A credential failure that returns without setting the connection state.
CredentialFailedSilent(a) ==
    /\ cpc[a] = "cred"
    /\ cpc' = [cpc EXCEPT ![a] = "done"]
    /\ \E text \in {"Erro: Falha ao autenticar a IA.",
                    "Chave da API nao configurada corretamente no sistema."} :
          logs' = addLog(logs, SysLog(text))
    /\ UNCHANGED sessVars
    /\ UNCHANGED <<now, capturedState, currentSessionId, opc, playVars>>
    /\ UNCHANGED <<capVars, visVars>>

\* A credential failure handled like a runtime failure: the state set to ERROR.
CredentialFailedAsError(a) ==
    /\ cpc[a] = "cred"
    /\ cpc' = [cpc EXCEPT ![a] = "done"]
    /\ logs' = addLog(logs, SysLog("Erro: Falha ao autenticar a IA."))
    /\ Install([Snapshot EXCEPT !.connectionState = "ERROR"])
    /\ UNCHANGED <<now, capturedState, currentSessionId, opc, playVars>>
    /\ UNCHANGED <<capVars, visVars>>

\* The credential query failed, returned no data or an empty value (lines 459-472).
CredentialFailed(a) ==
    /\ cpc[a] = "cred"
    /\ cpc' = [cpc EXCEPT ![a] = "done"]
    /\ \E text \in {"Erro: Falha ao autenticar a IA.",
                    "Chave da API nao configurada corretamente no sistema."} :
          logs' = addLog(logs, SysLog(text))
    /\ Install([Snapshot EXCEPT !.connectionState = "DISCONNECTED"])
    /\ UNCHANGED <<now, capturedState, currentSessionId, opc, playVars>>
    /\ UNCHANGED <<capVars, visVars>>

\* The catch of connect() (lines 660-667), run by the call whose epoch is id.
ConnectCatch(s, id) ==
    IF s.sessionIdRef = id
    THEN Teardown([s EXCEPT !.connectionState = "ERROR"], {})
    ELSE s

CatchLogs(id) ==
    IF sessionIdRef = id THEN addLog(logs, SysLog("Falha na conexao.")) ELSE logs

\* Lines 495-504: the analyser node, then ai.live.connect is awaited.
OpenTransport(s, a) ==
    [s EXCEPT !.analyserRef = a, !.analyser = a,
              !.wired[a] = @ \cup {"analyser"},
              !.transport[a] = "opening"]

\* The credential arrived (lines 460-492): the second guard, the epoch, the
\* AudioContext, which may start suspended.
CredentialOk(a) ==
    /\ cpc[a] = "cred"
    /\ IF ConnectGuard(capturedState[a], isConnectedRef)
       THEN /\ cpc' = [cpc EXCEPT ![a] = "done"]
            /\ UNCHANGED <<sessVars, logs, now, capturedState, currentSessionId, opc>>
       ELSE \E t \in {now, now + 1}, suspended \in BOOLEAN :
            /\ now' = t
            /\ currentSessionId' = [currentSessionId EXCEPT ![a] = t]
            /\ logs' = addLog(logs, SysLog("Conectando..."))
            /\ LET s == [Snapshot EXCEPT !.sessionIdRef = t, !.audioContextRef = a,
                            !.ctxState[a] = IF suspended THEN "suspended" ELSE "running"]
               IN  IF suspended
                   THEN /\ cpc' = [cpc EXCEPT ![a] = "resume"]
                        /\ Install(s)
                   ELSE /\ cpc' = [cpc EXCEPT ![a] = "open"]
                        /\ Install(OpenTransport(s, a))
            /\ UNCHANGED <<capturedState, opc>>
    /\ UNCHANGED playVars
    /\ UNCHANGED <<capVars, visVars>>

\* await ctx.resume() settles (line 492): a context closed meanwhile rejects it.
ResumeSettled(a) ==
    /\ cpc[a] = "resume"
    /\ IF ctxState[a] = "closed"
       THEN /\ cpc' = [cpc EXCEPT ![a] = "done"]
            /\ logs' = CatchLogs(currentSessionId[a])
            /\ Install(ConnectCatch(Snapshot, currentSessionId[a]))
       ELSE /\ cpc' = [cpc EXCEPT ![a] = "open"]
            /\ logs' = logs
            /\ Install(OpenTransport([Snapshot EXCEPT !.ctxState[a] = "running"], a))
    /\ UNCHANGED <<now, capturedState, currentSessionId, opc, playVars>>
    /\ UNCHANGED <<capVars, visVars>>

\* ai.live.connect rejects (line 660).
ConnectRejected(a) ==
    /\ cpc[a] = "open"
    /\ transport[a] = "opening"
    /\ cpc' = [cpc EXCEPT ![a] = "done"]
    /\ logs' = CatchLogs(currentSessionId[a])
    /\ Install(ConnectCatch([Snapshot EXCEPT !.transport[a] = "closed"], currentSessionId[a]))
    /\ UNCHANGED <<now, capturedState, currentSessionId, opc, playVars>>
    /\ UNCHANGED <<capVars, visVars>>

\* An onopen that marks the session connected as soon as the socket opens,
\* without the handshake delay.
TransportOpenedNoDelay(a) ==
    /\ cpc[a] = "open"
    /\ transport[a] = "opening"
    /\ cpc' = [cpc EXCEPT ![a] = "done"]
    /\ opc' = [opc EXCEPT ![a] = "wake"]
    /\ now' = now + 1
    /\ logs' = addLog(logs, SysLog("Conectado!"))
    /\ Install([Snapshot EXCEPT !.transport[a] = "open", !.sessionRef = a,
                    !.connectionState = "CONNECTED", !.isConnectedRef = TRUE])
    /\ UNCHANGED <<capturedState, currentSessionId, playVars>>
    /\ UNCHANGED <<capVars, visVars>>

\* The socket opens: the library calls onopen, which runs to its handshake delay
\* (lines 516-520), and resolves the awaited promise; connect() stores the
\* session (line 658).  The handshake takes wall-clock time.
TransportOpened(a) ==
    /\ cpc[a] = "open"
    /\ transport[a] = "opening"
    /\ cpc' = [cpc EXCEPT ![a] = "done"]
    /\ opc' = [opc EXCEPT ![a] = "delay"]
    /\ now' = now + 1
    /\ Install([Snapshot EXCEPT !.transport[a] = "open", !.sessionRef = a])
    /\ UNCHANGED <<logs, capturedState, currentSessionId, playVars>>
    /\ UNCHANGED <<capVars, visVars>>

\* ---------------------------------------------------------------- onopen
\* requestWakeLock (lines 385-395) returns at once when a live lock is held.
LockHeld == wakeLockRef # 0 /\ lock[wakeLockRef] # "released"

\* A continuation that goes on without comparing the epochs.
OnOpenDelayElapsedUnchecked(a) ==
    /\ opc[a] = "delay"
    /\ opc' = [opc EXCEPT ![a] = IF LockHeld THEN "mic" ELSE "wake"]
    /\ logs' = addLog(logs, SysLog("Conectado!"))
    /\ Install([Snapshot EXCEPT !.connectionState = "CONNECTED", !.isConnectedRef = TRUE])
    /\ UNCHANGED <<now, cpc, capturedState, currentSessionId, playVars>>
    /\ UNCHANGED <<capVars, visVars>>

\* The handshake delay is over (lines 522-532).
OnOpenDelayElapsed(a) ==
    /\ opc[a] = "delay"
    /\ IF sessionIdRef # currentSessionId[a]
       THEN /\ opc' = [opc EXCEPT ![a] = "aborted"]
            /\ UNCHANGED <<sessVars, logs>>
       ELSE /\ opc' = [opc EXCEPT ![a] = IF LockHeld THEN "mic" ELSE "wake"]
            /\ logs' = addLog(logs, SysLog("Conectado!"))
            /\ Install([Snapshot EXCEPT !.connectionState = "CONNECTED",
                                        !.isConnectedRef = TRUE])
    /\ UNCHANGED <<now, cpc, capturedState, currentSessionId, playVars>>
    /\ UNCHANGED <<capVars, visVars>>

\* The outcomes of navigator.wakeLock.request('screen'): the platform grants a
\* screen lock to a visible document only; the request may always fail.
Grantable == IF visible THEN BOOLEAN ELSE {FALSE}

\* A requestWakeLock without its try/catch: a rejected request propagates out
\* of onopen, whose catch ends the session.
WakeLockSettledFatal(a) ==
    /\ opc[a] = "wake"
    /\ \E granted \in Grantable :
          IF granted
          THEN /\ Install([Snapshot EXCEPT !.lock[a] = "held", !.wakeLockRef = a])
               /\ opc' = [opc EXCEPT ![a] = "mic"]
          ELSE /\ Install(Teardown(Snapshot, {}))
               /\ opc' = [opc EXCEPT ![a] = "done"]
    /\ UNCHANGED <<logs, now, cpc, capturedState, currentSessionId, playVars>>
    /\ UNCHANGED <<capVars, visVars>>

\* navigator.wakeLock.request settles (lines 389-394); getUserMedia is called next.
WakeLockSettled(a) ==
    /\ opc[a] = "wake"
    /\ opc' = [opc EXCEPT ![a] = "mic"]
    /\ \E granted \in Grantable :
          IF granted
          THEN Install([Snapshot EXCEPT !.lock[a] = "held", !.wakeLockRef = a])
          ELSE UNCHANGED sessVars
    /\ UNCHANGED <<logs, now, cpc, capturedState, currentSessionId, playVars>>
    /\ UNCHANGED <<capVars, visVars>>

\* A continuation that stores and wires the stream without comparing the epochs.
MicGrantedUnchecked(a) ==
    /\ opc[a] = "mic"
    /\ opc' = [opc EXCEPT ![a] = "done"]
    /\ Install([Snapshot EXCEPT !.stream[a] = "live", !.streamRef = a,
                   !.audioSourceRef = a, !.processorNodeRef = a,
                   !.wired[a] = @ \cup {"source", "processor"}])
    /\ UNCHANGED <<logs, now, cpc, capturedState, currentSessionId, playVars>>
    /\ UNCHANGED <<capVars, visVars>>

\* getUserMedia resolves (lines 535-585).
MicGranted(a) ==
    /\ opc[a] = "mic"
    /\ opc' = [opc EXCEPT ![a] = "done"]
    /\ IF sessionIdRef # currentSessionId[a]
       THEN Install([Snapshot EXCEPT !.stream[a] = "stopped"])
       ELSE Install([Snapshot EXCEPT !.stream[a] = "live", !.streamRef = a,
                        !.audioSourceRef = a, !.processorNodeRef = a,
                        !.wired[a] = @ \cup {"source", "processor"}])
    /\ UNCHANGED <<logs, now, cpc, capturedState, currentSessionId, playVars>>
    /\ UNCHANGED <<capVars, visVars>>

\* getUserMedia rejects (lines 586-590).
MicFailed(a) ==
    /\ opc[a] = "mic"
    /\ opc' = [opc EXCEPT ![a] = "done"]
    /\ logs' = addLog(logs, SysLog("Microfone nao disponivel."))
    /\ IF sessionIdRef = currentSessionId[a]
       THEN Install(Teardown(Snapshot, {}))
       ELSE UNCHANGED sessVars
    /\ UNCHANGED <<now, cpc, capturedState, currentSessionId, playVars>>
    /\ UNCHANGED <<capVars, visVars>>

\* ------------------------------------------------------ onclose, onerror
\* An onclose that tears the hook down without comparing the epochs.
OnCloseUnchecked(a) ==
    /\ transport[a] \in {"opening", "open", "closing"}
    /\ Install(Teardown([Snapshot EXCEPT !.transport[a] = "closed"], {}))
    /\ UNCHANGED <<logs, now, coVars, playVars>>
    /\ UNCHANGED <<capVars, visVars>>

\* The socket's close event (lines 637-647): the server closed it, the
\* connection failed, or close() has completed.
OnClose(a) ==
    /\ transport[a] \in {"opening", "open", "closing"}
    /\ LET s == [Snapshot EXCEPT !.transport[a] = "closed"]
       IN  IF sessionIdRef = currentSessionId[a]
           THEN Install(Teardown(s, {}))
           ELSE Install(s)
    /\ UNCHANGED <<logs, now, coVars, playVars>>
    /\ UNCHANGED <<capVars, visVars>>

\* The socket's error event (lines 648-654); its close event follows.
OnError(a) ==
    /\ transport[a] \in {"opening", "open"}
    /\ LET s == [Snapshot EXCEPT !.transport[a] = "closing"]
       IN  IF sessionIdRef = currentSessionId[a]
           THEN Install(Teardown([s EXCEPT !.connectionState = "ERROR"], {}))
           ELSE Install(s)
    /\ UNCHANGED <<logs, now, coVars, playVars>>
    /\ UNCHANGED <<capVars, visVars>>

\* ----------------------------------------------------- visibility handler
\* Runs of the handler are numbered in the order the events arrive.
NextVis == IF \E v \in Vis : vpc[v] = "idle"
           THEN CHOOSE v \in Vis : vpc[v] = "idle" /\ \A w \in Vis : w < v => vpc[w] # "idle"
           ELSE 0

\* The sentinel a run of the handler is granted.
VisLock(v) == MaxCalls + v

\* Line 412: the stored context is resumed when it is suspended.
VisContinue(v) ==
    IF audioContextRef # 0 /\ ctxState[audioContextRef] = "suspended"
    THEN /\ vpc' = [vpc EXCEPT ![v] = "resume"]
         /\ vctx' = [vctx EXCEPT ![v] = audioContextRef]
    ELSE /\ vpc' = [vpc EXCEPT ![v] = "done"]
         /\ vctx' = vctx

\* A handler that requests the lock whether or not a session is live.
VisibilityVisibleAlways(v) ==
    /\ v = NextVis
    /\ ~visible
    /\ visible' = TRUE
    /\ IF ~LockHeld
       THEN /\ vpc' = [vpc EXCEPT ![v] = "wake"]
            /\ vctx' = vctx
       ELSE VisContinue(v)
    /\ UNCHANGED <<sessVars, logs, now, coVars, playVars, capVars>>

\* The document becomes visible (lines 409-412): requestWakeLock when a session
\* is marked live, which returns at once when a live lock is held.
VisibilityVisible(v) ==
    /\ v = NextVis
    /\ ~visible
    /\ visible' = TRUE
    /\ IF isConnectedRef /\ ~LockHeld
       THEN /\ vpc' = [vpc EXCEPT ![v] = "wake"]
            /\ vctx' = vctx
       ELSE VisContinue(v)
    /\ UNCHANGED <<sessVars, logs, now, coVars, playVars, capVars>>

\* The handler's navigator.wakeLock.request settles (lines 389-394, 411).
VisWakeLockSettled(v) ==
    /\ vpc[v] = "wake"
    /\ \E granted \in Grantable :
          IF granted
          THEN Install([Snapshot EXCEPT !.lock[VisLock(v)] = "held",
                                        !.wakeLockRef = VisLock(v)])
          ELSE UNCHANGED sessVars
    /\ VisContinue(v)
    /\ UNCHANGED <<visible, logs, now, coVars, playVars, capVars>>

\* The handler's ctx.resume() settles (line 412): a suspended context runs
\* again; a context closed meanwhile rejects, which nothing catches.
VisResumeSettled(v) ==
    /\ vpc[v] = "resume"
    /\ vpc' = [vpc EXCEPT ![v] = "done"]
    /\ IF ctxState[vctx[v]] = "suspended"
       THEN Install([Snapshot EXCEPT !.ctxState[vctx[v]] = "running"])
       ELSE UNCHANGED sessVars
    /\ UNCHANGED <<visible, vctx, logs, now, coVars, playVars, capVars>>

\* The document becomes hidden: the handler's test at line 410 fails and it
\* returns; the platform releases the screen locks of a hidden document.
VisibilityHidden ==
    /\ visible
    /\ visible' = FALSE
    /\ Install([Snapshot EXCEPT
                  !.lock = [l \in Locks |-> IF lock[l] = "held" THEN "released" ELSE lock[l]]])
    /\ UNCHANGED <<vpc, vctx, logs, now, coVars, playVars, capVars>>

\* ------------------------------------------------------------ transcripts
\* A text is a sequence of characters: 0 is a white-space character, m > 0 a
\* visible character of message m's fragment.
Max(x, y) == IF x >= y THEN x ELSE y

RECURSIVE TrimStart(_)
TrimStart(text) ==
    IF text # << >> /\ Head(text) = 0 THEN TrimStart(Tail(text)) ELSE text

RECURSIVE TrimEnd(_)
TrimEnd(text) ==
    IF text # << >> /\ text[Len(text)] = 0
    THEN TrimEnd(SubSeq(text, 1, Len(text) - 1)) ELSE text

\* String.prototype.trim
Trim(text) == TrimEnd(TrimStart(text))

\* ------------------------------------------------------------- onmessage
NoMsg == [pc |-> "new"]
DoneMsg == [pc |-> "done"]
\* The handler ended by an exception thrown after an await.
ThrownMsg == [pc |-> "thrown"]
NoSrc == [st |-> "none"]

\* The next message number: messages are numbered in the order they arrive.
NextMsg == IF \E m \in Msgs : msgs[m].pc = "new"
           THEN CHOOSE m \in Msgs : msgs[m].pc = "new" /\ \A k \in Msgs : k < m => msgs[k].pc # "new"
           ELSE 0

\* What a LiveServerMessage may carry: an audio part of dur ticks (0: none), an
\* input and an output transcription text (empty: none), turnComplete, interrupted.
Content(dur, inText, outText, turn, intr) ==
    [dur |-> dur, inText |-> inText, outText |-> outText, turn |-> turn, intr |-> intr]

\* The messages of a spoken answer: audio chunks and the interruption signal.
AudioContents ==
    {Content(d, << >>, << >>, FALSE, FALSE) : d \in 1..MaxDur}
    \cup {Content(0, << >>, << >>, FALSE, TRUE)}

\* The transcription fragments message m may carry: none, white space only,
\* a word after a space.
Fragments(m) == {<< >>, <<0>>, <<0, m>>}

\* The messages of a conversation turn: transcription fragments alone, with an
\* audio chunk or with turnComplete, and the bare turnComplete and interrupted
\* signals.
TextContents(m) ==
    {Content(0, i, o, FALSE, FALSE) : i \in Fragments(m), o \in Fragments(m)}
    \cup {Content(1, << >>, <<0, m>>, FALSE, FALSE),
          Content(0, <<0, m>>, <<0, m>>, TRUE, FALSE),
          Content(0, << >>, << >>, TRUE, FALSE),
          Content(0, << >>, << >>, FALSE, TRUE)}

\* The messages of a spoken answer that is cut short: an audio chunk alone, and
\* one with the transcripts and turnComplete.
CutContents(m) ==
    {Content(1, << >>, << >>, FALSE, FALSE),
     Content(1, <<0, m>>, <<0, m>>, TRUE, FALSE)}

\* The messages of a turn of call a's session: a fragment for each speaker,
\* whose visible character is the number of the session it is received in, and
\* the turnComplete signal.
TurnContents(a) ==
    {Content(0, <<0, a>>, <<0, a>>, FALSE, FALSE),
     Content(0, << >>, << >>, TRUE, FALSE)}

\* The playback and transcript state one onmessage invocation works on.
PlayState ==
    [next |-> nextStartTimeRef, pending |-> sourcesRef,
     input |-> currentInputRef, output |-> currentOutputRef,
     logs |-> logs, src |-> src, interrupts |-> interrupts]

InstallPlay(p) ==
    /\ nextStartTimeRef' = p.next
    /\ sourcesRef' = p.pending
    /\ currentInputRef' = p.input
    /\ currentOutputRef' = p.output
    /\ logs' = p.logs
    /\ src' = p.src
    /\ interrupts' = p.interrupts

\* Lines 616-623: a text that is not the empty string is appended to its buffer.
AppendTranscripts(p, c) ==
    [p EXCEPT !.input = @ \o c.inText, !.output = @ \o c.outText]

\* A flush that logs and resets both buffers whatever they hold, untrimmed.
TurnCompleteUntrimmed(p) ==
    [p EXCEPT !.logs = addLog(addLog(@, [role |-> "user", text |-> p.input]),
                              [role |-> "model", text |-> p.output]),
              !.input = << >>, !.output = << >>]

\* Lines 625-628: a buffer whose trimmed content is not empty is logged and reset.
TurnComplete(p) ==
    LET p1 == IF Trim(p.input) # << >>
              THEN [p EXCEPT !.logs = addLog(@, [role |-> "user", text |-> Trim(p.input)]),
                             !.input = << >>]
              ELSE p
    IN  IF Trim(p1.output) # << >>
        THEN [p1 EXCEPT !.logs = addLog(@, [role |-> "model", text |-> Trim(p1.output)]),
                        !.output = << >>]
        ELSE p1

\* An interruption handler that calls stop() without a try/catch.
StopUnguarded == FALSE

\* Whether src.stop() sits in a try/catch inside the forEach (line 631).
StopGuarded == TRUE

\* An interruption handler that resets the input buffer as well.
InterruptedClearsBoth(p, fails) ==
    [p EXCEPT !.src = [m \in Msgs |->
                          IF m \in p.pending
                          THEN [p.src[m] EXCEPT !.stops = @ + 1,
                                   !.st = IF m \in fails THEN @ ELSE "stopped"]
                          ELSE p.src[m]],
              !.pending = {}, !.next = 0, !.output = << >>, !.input = << >>,
              !.interrupts = @ + 1]

\* Lines 630-635: stop() is called on every pending source, those in `fails`
\* throwing; then the set is cleared, the cursor and the output buffer reset.
Interrupted(p, fails) ==
    IF fails # {} /\ ~StopGuarded
    THEN p
    ELSE [p EXCEPT !.src = [m \in Msgs |->
                               IF m \in p.pending
                               THEN [p.src[m] EXCEPT !.stops = @ + 1,
                                        !.st = IF m \in fails THEN @ ELSE "stopped"]
                               ELSE p.src[m]],
                   !.pending = {}, !.next = 0, !.output = << >>,
                   !.interrupts = @ + 1]

\* The stop() calls that may throw while message content c is handled.
StopFailures(c, pending) == IF c.intr THEN SUBSET pending ELSE {{}}

\* The rest of onmessage after the audio part (lines 616-635).
MessageTail(p, c, fails) ==
    LET p1 == AppendTranscripts(p, c)
        p2 == IF c.turn THEN TurnComplete(p1) ELSE p1
    IN  IF c.intr THEN Interrupted(p2, fails) ELSE p2

\* Line 602: nextStartTimeRef.current = Math.max(nextStartTimeRef.current, ctx.currentTime)
CursorAt(cursor, clock) == Max(cursor, clock)

\* Lines 605-613: the source is started at the cursor, the cursor advanced by the
\* buffer's duration, the source added to the pending set.
Schedule(p, m, dur, ctx) ==
    [p EXCEPT !.src[m] = [st |-> "playing", start |-> p.next, dur |-> dur, ctx |-> ctx,
                          at |-> ctxTime[ctx], arr |-> msgs[m].arr,
                          gen |-> p.interrupts, stops |-> 0],
              !.next = @ + dur,
              !.pending = @ \cup {m}]

\* onmessage is called with a message of call a's transport (lines 592-602).
OnMessage(a, m, c) ==
    /\ transport[a] = "open"
    /\ m = NextMsg
    /\ IF sessionIdRef # currentSessionId[a]
       THEN /\ msgs' = [msgs EXCEPT ![m] = DoneMsg]
            /\ UNCHANGED <<nextStartTimeRef, sourcesRef, currentInputRef, currentOutputRef,
                           logs, src, interrupts, ctxState>>
       ELSE IF c.dur > 0 /\ audioContextRef # 0
            THEN LET ctx == audioContextRef
                     co == [pc |-> "decode", att |-> a, ctx |-> ctx, c |-> c,
                            arr |-> ctxTime[ctx]]
                 IN  IF ctxState[ctx] = "suspended"
                     THEN /\ msgs' = [msgs EXCEPT ![m] = [co EXCEPT !.pc = "resume"]]
                          /\ UNCHANGED <<nextStartTimeRef, sourcesRef, currentInputRef,
                                         currentOutputRef, logs, src, interrupts, ctxState>>
                     ELSE /\ msgs' = [msgs EXCEPT ![m] = co]
                          /\ nextStartTimeRef' = CursorAt(nextStartTimeRef, ctxTime[ctx])
                          /\ UNCHANGED <<sourcesRef, currentInputRef, currentOutputRef,
                                         logs, src, interrupts, ctxState>>
            ELSE /\ msgs' = [msgs EXCEPT ![m] = DoneMsg]
                 /\ \E fails \in StopFailures(c, sourcesRef) :
                       InstallPlay(MessageTail(PlayState, c, fails))
                 /\ UNCHANGED ctxState
    /\ UNCHANGED <<connectionState, isConnectedRef, sessionIdRef, analyser, volume,
                   audioContextRef, audioSourceRef, processorNodeRef, analyserRef,
                   streamRef, sessionRef, wakeLockRef, transport, stream, wired, lock,
                   threw, now, coVars, ctxTime>>
    /\ UNCHANGED <<capVars, visVars>>

\* await ctx.resume() settles in onmessage (line 600): a closed context rejects it
\* and the handler ends there.
MessageResumed(m) ==
    /\ msgs[m].pc = "resume"
    /\ LET ctx == msgs[m].ctx
       IN  IF ctxState[ctx] = "closed"
           THEN /\ msgs' = [msgs EXCEPT ![m] = ThrownMsg]
                /\ UNCHANGED <<nextStartTimeRef, ctxState>>
           ELSE /\ msgs' = [msgs EXCEPT ![m].pc = "decode"]
                /\ ctxState' = [ctxState EXCEPT ![ctx] = "running"]
                /\ nextStartTimeRef' = CursorAt(nextStartTimeRef, ctxTime[ctx])
    /\ UNCHANGED <<connectionState, isConnectedRef, sessionIdRef, analyser, volume,
                   audioContextRef, audioSourceRef, processorNodeRef, analyserRef,
                   streamRef, sessionRef, wakeLockRef, transport, stream, wired, lock,
                   threw, now, coVars, ctxTime, logs,
                   sourcesRef, currentInputRef, currentOutputRef, src, interrupts>>
    /\ UNCHANGED <<capVars, visVars>>

\* A continuation whose source.connect never throws: the buffer is scheduled
\* and the transcripts handled whatever the analyser reference holds.
MessageDecodedUnchecked(m) ==
    /\ msgs[m].pc = "decode"
    /\ msgs' = [msgs EXCEPT ![m] = DoneMsg]
    /\ \E fails \in StopFailures(msgs[m].c, sourcesRef \cup {m}) :
          InstallPlay(MessageTail(Schedule(PlayState, m, msgs[m].c.dur, msgs[m].ctx),
                                  msgs[m].c, fails))
    /\ UNCHANGED <<sessVars, now, coVars, ctxTime>>
    /\ UNCHANGED <<capVars, visVars>>

\* await decodeAudioData(...) settles (lines 603-635).  source.connect(analyserRef.current!)
\* throws when the ref is null or holds a node of another context, and the
\* handler ends there.
MessageDecoded(m) ==
    /\ msgs[m].pc = "decode"
    /\ IF analyserRef # msgs[m].ctx
       THEN /\ msgs' = [msgs EXCEPT ![m] = ThrownMsg]
            /\ UNCHANGED <<nextStartTimeRef, sourcesRef, currentInputRef, currentOutputRef,
                           logs, src, interrupts>>
       ELSE /\ msgs' = [msgs EXCEPT ![m] = DoneMsg]
            /\ \E fails \in StopFailures(msgs[m].c, sourcesRef \cup {m}) :
                  InstallPlay(MessageTail(Schedule(PlayState, m, msgs[m].c.dur, msgs[m].ctx),
                                          msgs[m].c, fails))
    /\ UNCHANGED <<sessVars, now, coVars, ctxTime>>
    /\ UNCHANGED <<capVars, visVars>>

\* ------------------------------------------------------- the audio clock
\* currentTime of a running context advances.
Tick(a) ==
    /\ ctxState[a] = "running"
    /\ ctxTime[a] < MaxTime
    /\ ctxTime' = [ctxTime EXCEPT ![a] = @ + 1]
    /\ UNCHANGED <<sessVars, logs, now, coVars, nextStartTimeRef, sourcesRef,
                   currentInputRef, currentOutputRef, msgs, src, interrupts>>
    /\ UNCHANGED <<capVars, visVars>>

\* A started source plays from max(start, the clock at start()) for its duration.
EndTime(s) == Max(s.start, s.at) + s.dur

\* An 'ended' listener that leaves the source in the pending set.
SourceEndedKeeps(m) ==
    /\ src[m].st = "playing"
    /\ ctxState[src[m].ctx] = "running"
    /\ ctxTime[src[m].ctx] >= EndTime(src[m])
    /\ src' = [src EXCEPT ![m].st = "ended"]
    /\ UNCHANGED <<sessVars, logs, now, coVars, nextStartTimeRef, sourcesRef,
                   currentInputRef, currentOutputRef, ctxTime, msgs, interrupts>>
    /\ UNCHANGED <<capVars, visVars>>

\* The 'ended' listener (line 610): the source has played to its end.
SourceEnded(m) ==
    /\ src[m].st = "playing"
    /\ ctxState[src[m].ctx] = "running"
    /\ ctxTime[src[m].ctx] >= EndTime(src[m])
    /\ src' = [src EXCEPT ![m].st = "ended"]
    /\ sourcesRef' = sourcesRef \ {m}
    /\ UNCHANGED <<sessVars, logs, now, coVars, nextStartTimeRef,
                   currentInputRef, currentOutputRef, ctxTime, msgs, interrupts>>
    /\ UNCHANGED <<capVars, visVars>>

\* The browser suspends a running context (the page is backgrounded).
ContextSuspended(a) ==
    /\ ctxState[a] = "running"
    /\ Install([Snapshot EXCEPT !.ctxState[a] = "suspended"])
    /\ UNCHANGED <<logs, now, coVars, playVars>>
    /\ UNCHANGED <<capVars, visVars>>

\* ---------------------------------------------------------- capture frame
\* Math.ceil(a / b) and Math.floor(a / b) for naturals a and b > 0.
Ceil(a, b) == (a + b - 1) \div b
Floor(a, b) == a \div b

\* Capture frames and rates.  The output rates are powers of two, so that the
\* double `inputRate / outputRate` is exact and the integer arithmetic below
\* computes what the floating-point code does.
Frames == UNION {[1..n -> 1..MaxSample] : n \in 0..MaxLen}
InputRates == 1..MaxRate
OutputRates == {1, 2}

\* A downsampleBuffer whose length is rounded down.
downsampleBufferFloor(buffer, inputRate, outputRate) ==
    IF inputRate = outputRate THEN buffer
    ELSE LET newLength == Floor(Len(buffer) * outputRate, inputRate)
         IN  [i \in 1..newLength |->
                LET offset == Floor((i - 1) * inputRate, outputRate)
                IN  IF offset < Len(buffer) THEN buffer[offset + 1] ELSE 0]

\* downsampleBuffer (lines 373-383), indices shifted by one: ratio is
\* inputRate / outputRate, newLength is ceil(length / ratio), result[i] is
\* buffer[floor(i * ratio)] when that offset is in range and 0 otherwise.
downsampleBuffer(buffer, inputRate, outputRate) ==
    IF inputRate = outputRate THEN buffer
    ELSE LET newLength == Ceil(Len(buffer) * outputRate, inputRate)
         IN  [i \in 1..newLength |->
                LET offset == Floor((i - 1) * inputRate, outputRate)
                IN  IF offset < Len(buffer) THEN buffer[offset + 1] ELSE 0]

\* Lines 567-570 for one frame: processData = downsampleBuffer(inputData,
\* ctx.sampleRate, AUDIO_CONFIG.inputSampleRate), the call's own test of the
\* rates being the same as the function's.
Resample ==
    /\ ~resampled
    /\ resampled' = TRUE
    /\ processData' = downsampleBuffer(inputData, sampleRate, inputSampleRate)
    /\ UNCHANGED <<sessVars, logs, now, coVars, playVars,
                   inputData, sampleRate, inputSampleRate, frames, audioprocess,
                   visVars>>

\* The sum the volume level is taken of (lines 559-561): the squares of every
\* eighth sample, from the first.  The frames of one processor have one length,
\* so the rms is an increasing function of this sum, which stands for it.
RECURSIVE SumSquares(_, _)
SumSquares(buffer, i) ==
    IF i > Len(buffer) THEN 0 ELSE buffer[i] * buffer[i] + SumSquares(buffer, i + 8)

\* The frames a ScriptProcessorNode delivers: all of the one buffer size.
CaptureInputs == {f \in Frames : Len(f) = MaxLen}

\* The processor of call a has filled a buffer (lines 553-555, 578-579): while
\* it is wired into a running context an audioprocess event is queued for the
\* main thread, which runs the callback later.
AudioProcessQueued(a) ==
    /\ "processor" \in wired[a]
    /\ ctxState[a] = "running"
    /\ a \notin audioprocess
    /\ Len(frames) < MaxFrames
    /\ audioprocess' = audioprocess \cup {a}
    /\ UNCHANGED <<inputData, sampleRate, inputSampleRate, processData, resampled, frames>>
    /\ UNCHANGED <<sessVars, logs, now, coVars, playVars, visVars>>

\* session.sendRealtimeInput (line 572): the call is made on the transport of
\* the connect() call whose onopen installed the callback, and returns or throws.
Sent(a, ok) == [to |-> a, out |-> IF ok THEN "sent" ELSE "failed"]

\* An onaudioprocess without the test of the live flag and of the epoch.
CaptureFrameUnguarded(a, f, ok) ==
    /\ a \in audioprocess
    /\ audioprocess' = audioprocess \ {a}
    /\ inputData' = f
    /\ resampled' = (sampleRate # inputSampleRate)
    /\ processData' = IF sampleRate # inputSampleRate
                      THEN downsampleBuffer(f, sampleRate, inputSampleRate)
                      ELSE f
    /\ frames' = Append(frames, Sent(a, ok))
    /\ Install([Snapshot EXCEPT !.volume = SumSquares(f, 1)])
    /\ UNCHANGED <<sampleRate, inputSampleRate>>
    /\ UNCHANGED <<logs, now, coVars, playVars, visVars>>

\* An onaudioprocess whose send is not in a try/catch and whose failure ends
\* the session.
CaptureFrameUncaught(a, f, ok) ==
    /\ a \in audioprocess
    /\ audioprocess' = audioprocess \ {a}
    /\ IF ~isConnectedRef \/ sessionIdRef # currentSessionId[a]
       THEN UNCHANGED <<sessVars, inputData, sampleRate, inputSampleRate,
                        processData, resampled, frames>>
       ELSE /\ inputData' = f
            /\ resampled' = (sampleRate # inputSampleRate)
            /\ processData' = IF sampleRate # inputSampleRate
                              THEN downsampleBuffer(f, sampleRate, inputSampleRate)
                              ELSE f
            /\ frames' = Append(frames, Sent(a, ok))
            /\ IF ok
               THEN Install([Snapshot EXCEPT !.volume = SumSquares(f, 1)])
               ELSE Install(Teardown([Snapshot EXCEPT !.volume = SumSquares(f, 1)], {}))
            /\ UNCHANGED <<sampleRate, inputSampleRate>>
    /\ UNCHANGED <<logs, now, coVars, playVars, visVars>>

\* processor.onaudioprocess (lines 555-576) for the frame f of call a's
\* processor, ok telling whether createPcmBlob and sendRealtimeInput return.
CaptureFrame(a, f, ok) ==
    /\ a \in audioprocess
    /\ audioprocess' = audioprocess \ {a}
    /\ IF ~isConnectedRef \/ sessionIdRef # currentSessionId[a]
       THEN UNCHANGED <<sessVars, inputData, sampleRate, inputSampleRate,
                        processData, resampled, frames>>
       ELSE /\ inputData' = f
            /\ resampled' = (sampleRate # inputSampleRate)
            /\ processData' = IF sampleRate # inputSampleRate
                              THEN downsampleBuffer(f, sampleRate, inputSampleRate)
                              ELSE f
            /\ frames' = Append(frames, Sent(a, ok))
            /\ Install([Snapshot EXCEPT !.volume = SumSquares(f, 1)])
            /\ UNCHANGED <<sampleRate, inputSampleRate>>
    /\ UNCHANGED <<logs, now, coVars, playVars, visVars>>

\* ------------------------------------------------------------- emissions
\* One addLog call (lines 361-366); the clock moves on between two emissions.
EmitLog ==
    /\ now <= MaxEmit
    /\ logs' = addLog(logs, LogEntry(now))
    /\ now' = now + 1
    /\ UNCHANGED <<sessVars, coVars, playVars, capVars, visVars>>

\* ------------------------------------------------------------------ spec
\* The hook after its first render, but for the log.
InitRefs ==
    /\ connectionState = "DISCONNECTED"
    /\ isConnectedRef = FALSE
    /\ sessionIdRef = NoEpoch
    /\ analyser = 0
    /\ volume = 0
    /\ audioContextRef = 0
    /\ audioSourceRef = 0
    /\ processorNodeRef = 0
    /\ analyserRef = 0
    /\ streamRef = 0
    /\ sessionRef = 0
    /\ wakeLockRef = 0
    /\ transport = [a \in Calls |-> "none"]
    /\ ctxState = [a \in Calls |-> "none"]
    /\ stream = [a \in Calls |-> "none"]
    /\ wired = [a \in Calls |-> {}]
    /\ lock = [l \in Locks |-> "none"]
    /\ threw = FALSE
    /\ now = 1
    /\ nextStartTimeRef = 0
    /\ sourcesRef = {}
    /\ currentInputRef = << >>
    /\ currentOutputRef = << >>
    /\ ctxTime = [a \in Calls |-> 0]
    /\ msgs = [m \in Msgs |-> NoMsg]
    /\ src = [m \in Msgs |-> NoSrc]
    /\ interrupts = 0
    /\ cpc = [a \in Calls |-> "idle"]
    /\ capturedState = [a \in Calls |-> "DISCONNECTED"]
    /\ currentSessionId = [a \in Calls |-> NoEpoch]
    /\ opc = [a \in Calls |-> "none"]
    /\ visible = TRUE
    /\ vpc = [v \in Vis |-> "idle"]
    /\ vctx = [v \in Vis |-> 0]

\* The hook after its first render with nothing saved in localStorage.
InitSession == InitRefs /\ logs = << >>

\* No capture frame is being processed.
InitCapture ==
    /\ inputData = << >>
    /\ sampleRate = 1
    /\ inputSampleRate = 1
    /\ processData = << >>
    /\ resampled = FALSE
    /\ frames = << >>
    /\ audioprocess = {}

Init == InitSession /\ InitCapture

Next ==
    \/ Disconnect
    \/ \E a \in Calls : Connect(a)
    \/ \E a \in Calls : CredentialFailed(a)
    \/ \E a \in Calls : CredentialOk(a)
    \/ \E a \in Calls : ResumeSettled(a)
    \/ \E a \in Calls : ConnectRejected(a)
    \/ \E a \in Calls : TransportOpened(a)
    \/ \E a \in Calls : OnOpenDelayElapsed(a)
    \/ \E a \in Calls : WakeLockSettled(a)
    \/ \E a \in Calls : MicGranted(a)
    \/ \E a \in Calls : MicFailed(a)
    \/ \E a \in Calls : OnClose(a)
    \/ \E a \in Calls : OnError(a)

Spec == Init /\ [][Next]_vars

\* One session and its inbound messages.
NextPlay ==
    \/ Connect(1)
    \/ CredentialOk(1)
    \/ ResumeSettled(1)
    \/ TransportOpened(1)
    \/ OnOpenDelayElapsed(1)
    \/ \E m \in Msgs : \E c \in AudioContents : OnMessage(1, m, c)
    \/ \E m \in Msgs : MessageResumed(m)
    \/ \E m \in Msgs : MessageDecoded(m)
    \/ \E m \in Msgs : SourceEnded(m)
    \/ Tick(1)
    \/ ContextSuspended(1)

SpecPlay == Init /\ [][NextPlay]_vars

\* One session and the transcripts of its inbound messages.
NextText ==
    \/ Connect(1)
    \/ CredentialOk(1)
    \/ ResumeSettled(1)
    \/ TransportOpened(1)
    \/ \E m \in Msgs : \E c \in TextContents(m) : OnMessage(1, m, c)
    \/ \E m \in Msgs : MessageDecoded(m)

SpecText == Init /\ [][NextText]_vars

\* The lifecycle of one connect() call with release steps that may throw.
NextFaults ==
    \/ Disconnect
    \/ DisconnectFaulty
    \/ Connect(1)
    \/ CredentialFailed(1)
    \/ CredentialOk(1)
    \/ ResumeSettled(1)
    \/ ConnectRejected(1)
    \/ TransportOpened(1)
    \/ OnOpenDelayElapsed(1)
    \/ WakeLockSettled(1)
    \/ MicGranted(1)
    \/ MicFailed(1)
    \/ OnClose(1)
    \/ OnError(1)

SpecFaults == Init /\ [][NextFaults]_vars

\* The lifecycle of one connect() call, with every promise the call awaits
\* settling in the end: the credential query, ctx.resume(), ai.live.connect,
\* the handshake timer, navigator.wakeLock.request and getUserMedia.  What the
\* user and the server do (disconnect(), a close or an error of the socket) is
\* not forced to happen.
NextSettle ==
    \/ Disconnect
    \/ Connect(1)
    \/ CredentialFailed(1)
    \/ CredentialOk(1)
    \/ ResumeSettled(1)
    \/ ConnectRejected(1)
    \/ TransportOpened(1)
    \/ OnOpenDelayElapsed(1)
    \/ WakeLockSettled(1)
    \/ MicGranted(1)
    \/ MicFailed(1)
    \/ OnClose(1)
    \/ OnError(1)

SpecSettle ==
    /\ Init
    /\ [][NextSettle]_vars
    /\ WF_vars(CredentialFailed(1) \/ CredentialOk(1))
    /\ WF_vars(ResumeSettled(1))
    /\ WF_vars(ConnectRejected(1) \/ TransportOpened(1))
    /\ WF_vars(OnOpenDelayElapsed(1))
    /\ WF_vars(WakeLockSettled(1))
    /\ WF_vars(MicGranted(1) \/ MicFailed(1))

\* One session and the visibility handler: the document is hidden and shown
\* again while the session connects, runs and is disconnected.
NextWake ==
    \/ Disconnect
    \/ Connect(1)
    \/ CredentialOk(1)
    \/ ResumeSettled(1)
    \/ TransportOpened(1)
    \/ OnOpenDelayElapsed(1)
    \/ WakeLockSettled(1)
    \/ MicGranted(1)
    \/ MicFailed(1)
    \/ OnClose(1)
    \/ ContextSuspended(1)
    \/ VisibilityHidden
    \/ \E v \in Vis : VisibilityVisible(v)
    \/ \E v \in Vis : VisWakeLockSettled(v)
    \/ \E v \in Vis : VisResumeSettled(v)

SpecWake == Init /\ [][NextWake]_vars

\* One session and its capture frames, the context running at the rate the
\* transport takes or at twice that rate.
InitStream ==
    /\ InitSession
    /\ inputData = << >>
    /\ sampleRate \in {1, 2}
    /\ inputSampleRate = 1
    /\ processData = << >>
    /\ resampled = FALSE
    /\ frames = << >>
    /\ audioprocess = {}

NextStream ==
    \/ Disconnect
    \/ Connect(1)
    \/ CredentialOk(1)
    \/ ResumeSettled(1)
    \/ TransportOpened(1)
    \/ OnOpenDelayElapsed(1)
    \/ WakeLockSettled(1)
    \/ MicGranted(1)
    \/ OnClose(1)
    \/ AudioProcessQueued(1)
    \/ \E f \in CaptureInputs : \E ok \in BOOLEAN : CaptureFrame(1, f, ok)

SpecStream == InitStream /\ [][NextStream]_vars

\* Log emissions on top of the log restored from localStorage (lines 318-334):
\* what an earlier run of the hook saved, between 0 and 50 entries emitted
\* before this run's clock readings.
InitLog ==
    /\ InitRefs
    /\ InitCapture
    /\ \E k \in 0..LogCap : logs = [i \in 1..k |-> LogEntry(i - k)]

NextLog == EmitLog

SpecLog == InitLog /\ [][NextLog]_vars

\* One session that is disconnected while its audio messages are being handled.
NextCut ==
    \/ Disconnect
    \/ Connect(1)
    \/ CredentialOk(1)
    \/ ResumeSettled(1)
    \/ TransportOpened(1)
    \/ OnOpenDelayElapsed(1)
    \/ \E m \in Msgs : \E c \in CutContents(m) : OnMessage(1, m, c)
    \/ \E m \in Msgs : MessageResumed(m)
    \/ \E m \in Msgs : MessageDecoded(m)
    \/ ContextSuspended(1)

SpecCut == Init /\ [][NextCut]_vars

\* A session that is disconnected and followed by a new one, each with its
\* audio messages.
NextAgain ==
    \/ Disconnect
    \/ \E a \in Calls : Connect(a)
    \/ \E a \in Calls : CredentialOk(a)
    \/ \E a \in Calls : ResumeSettled(a)
    \/ \E a \in Calls : TransportOpened(a)
    \/ \E a \in Calls : OnOpenDelayElapsed(a)
    \/ \E a \in Calls : \E m \in Msgs : \E c \in CutContents(m) : OnMessage(a, m, c)
    \/ \E m \in Msgs : MessageDecoded(m)

SpecAgain == Init /\ [][NextAgain]_vars

\* Sessions that end by disconnect(), close or error and are followed by a
\* new one, each with the transcripts of its turns.
NextTurns ==
    \/ Disconnect
    \/ \E a \in Calls : Connect(a)
    \/ \E a \in Calls : CredentialOk(a)
    \/ \E a \in Calls : ResumeSettled(a)
    \/ \E a \in Calls : TransportOpened(a)
    \/ \E a \in Calls : OnOpenDelayElapsed(a)
    \/ \E a \in Calls : OnClose(a)
    \/ \E a \in Calls : OnError(a)
    \/ \E a \in Calls : \E m \in Msgs : \E c \in TurnContents(a) : OnMessage(a, m, c)

SpecTurns == Init /\ [][NextTurns]_vars

\* Overlapping connect() calls whose awaits all settle: the credential query
\* (line 453), ctx.resume() (492), ai.live.connect (504) and the handshake
\* timer (520) each complete or fail; the user's calls and the socket's close
\* and error events are under no obligation.
SpecAttempts ==
    /\ Init
    /\ [][Next]_vars
    /\ \A a \in Calls : WF_vars(CredentialFailed(a) \/ CredentialOk(a))
    /\ \A a \in Calls : WF_vars(ResumeSettled(a))
    /\ \A a \in Calls : WF_vars(ConnectRejected(a) \/ TransportOpened(a))
    /\ \A a \in Calls : WF_vars(OnOpenDelayElapsed(a))

\* Overlapping sessions and their capture frames, each frame of one level.
LevelFrames == {[i \in 1..MaxLen |-> s] : s \in 1..MaxSample}

NextStreams ==
    \/ Disconnect
    \/ \E a \in Calls : Connect(a)
    \/ \E a \in Calls : CredentialOk(a)
    \/ \E a \in Calls : ResumeSettled(a)
    \/ \E a \in Calls : TransportOpened(a)
    \/ \E a \in Calls : OnOpenDelayElapsed(a)
    \/ \E a \in Calls : WakeLockSettled(a)
    \/ \E a \in Calls : MicGranted(a)
    \/ \E a \in Calls : AudioProcessQueued(a)
    \/ \E a \in Calls : \E f \in LevelFrames : \E ok \in BOOLEAN : CaptureFrame(a, f, ok)

SpecStreams == Init /\ [][NextStreams]_vars

\* downsampleBuffer applied to any frame at any pair of rates.
InitResample ==
    /\ InitSession
    /\ inputData \in Frames
    /\ sampleRate \in InputRates
    /\ inputSampleRate \in OutputRates
    /\ processData = << >>
    /\ resampled = FALSE
    /\ frames = << >>
    /\ audioprocess = {}

NextResample == Resample

SpecResample == InitResample /\ [][NextResample]_vars

\* ================================================================ claims
\* What a callback of a session must leave alone once the session is stale: the
\* connection state, the live flag, the stored handles, the playback cursor and
\* pending set, the transcript buffers and the log.
SessionState ==
    <<connectionState, isConnectedRef, audioContextRef, audioSourceRef,
      processorNodeRef, analyserRef, streamRef, sessionRef, wakeLockRef,
      nextStartTimeRef, sourcesRef, currentInputRef, currentOutputRef, logs>>

\* Call a's epoch e1 has been superseded: a greater epoch e2 is the live one.
Superseded(a) == currentSessionId[a] # NoEpoch /\ sessionIdRef > currentSessionId[a]

\* A step of one of call a's callbacks: the onopen continuation after the
\* handshake delay, the continuation after microphone acquisition, its failure
\* handler, onmessage and its continuations, onclose, onerror.
CallbackStep(a) ==
    \/ OnOpenDelayElapsed(a)
    \/ MicGranted(a)
    \/ MicFailed(a)
    \/ OnClose(a)
    \/ OnError(a)
    \/ \E m \in Msgs : \E c \in AudioContents : OnMessage(a, m, c)
    \/ \E m \in Msgs : msgs[m].pc \in {"resume", "decode"} /\ msgs[m].att = a
                       /\ (MessageResumed(m) \/ MessageDecoded(m))

\* C1: for two sessions with epochs e1 < e2, once e2 is the live epoch no
\* callback of session e1 changes the connection state, the live flag, a stored
\* handle, the playback cursor or pending set, a transcript buffer or the log.
C1_StaleCallbacksInert ==
    [][\A a \in Calls : (Superseded(a) /\ CallbackStep(a)) => UNCHANGED SessionState]_vars

\* C2: a connect() call made while the connection state is not DISCONNECTED, or
\* while a session is marked live, is a no-op: nothing of the state changes, no
\* credential is fetched and no transport is opened.
C2_ConnectIgnored ==
    [][\A a \in Calls :
         (Connect(a) /\ (connectionState # "DISCONNECTED" \/ isConnectedRef))
         => /\ cpc'[a] = "ignored"
            /\ UNCHANGED <<sessVars, logs, now, capturedState, currentSessionId, opc, playVars>>]_vars

C2_Witness ==
    \E a \in Calls : cpc[a] = "ignored" /\ connectionState \in {"CONNECTING", "CONNECTED"}

\* C3: at most one remote transport is open and not yet closed at any time.
OpenTransports == {a \in Calls : transport[a] = "open"}

C3_AtMostOneOpenTransport == Cardinality(OpenTransports) <= 1

\* C4: a disconnect() during the handshake delay makes the waiting session stale,
\* it stays stale, and when the delay elapses the stale continuation changes
\* nothing: no CONNECTED, no live flag, no log entry, no wake lock, no
\* microphone, no disconnect().
C4_StaleOnOpenInert ==
    [][\A a \in Calls :
         /\ (Disconnect /\ opc[a] = "delay") => sessionIdRef' # currentSessionId[a]
         /\ (opc[a] = "delay" /\ opc'[a] = "delay" /\ sessionIdRef # currentSessionId[a])
            => sessionIdRef' # currentSessionId[a]
         /\ (opc[a] = "delay" /\ opc'[a] # "delay" /\ sessionIdRef # currentSessionId[a])
            => /\ opc'[a] = "aborted"
               /\ UNCHANGED <<sessVars, logs, now, cpc, capturedState, currentSessionId, playVars>>]_vars

C4_Witness ==
    \E a \in Calls : opc[a] = "aborted" /\ connectionState = "DISCONNECTED" /\ ~isConnectedRef

\* C5: CONNECTED is entered only by an onopen continuation whose handshake delay
\* has elapsed and whose epoch is live, and that step marks the session live;
\* the wake lock is requested in that step; the microphone is requested only
\* after the wake-lock request has settled (or a live lock was already held).
C5_OnOpenOrder ==
    [][/\ (connectionState' = "CONNECTED" /\ connectionState # "CONNECTED")
          => \E a \in Calls : /\ opc[a] = "delay"
                              /\ opc'[a] \in {"wake", "mic"}
                              /\ sessionIdRef = currentSessionId[a]
                              /\ isConnectedRef'
       /\ \A a \in Calls :
            /\ (opc'[a] = "wake" /\ opc[a] # "wake")
               => opc[a] = "delay" /\ connectionState' = "CONNECTED" /\ isConnectedRef'
            /\ (opc'[a] = "mic" /\ opc[a] # "mic")
               => \/ opc[a] = "wake"
                  \/ opc[a] = "delay" /\ LockHeld /\ connectionState' = "CONNECTED"]_vars

C5_Witness ==
    \E a \in Calls : /\ opc[a] = "mic"
                     /\ connectionState = "CONNECTED"
                     /\ isConnectedRef
                     /\ sessionIdRef = currentSessionId[a]
                     /\ lock[a] = "held"

\* The handles disconnect() clears in its own body.
BodyHandles == {"sessionRef", "streamRef", "audioSourceRef", "processorNodeRef",
                "analyserRef", "audioContextRef"}

\* C6: disconnect() is total and idempotent. In any state, whatever resources
\* are absent or already released and whichever of the attempted releases
\* throw, it does not throw and leaves DISCONNECTED; after one whose wake-lock
\* release went through no release is left to attempt, and a second
\* disconnect() changes nothing.
C6_DisconnectTotalIdempotent ==
    /\ ~threw
    /\ \A f1 \in SUBSET Attempted(Snapshot) :
         LET d1 == Teardown(Snapshot, f1)
         IN  /\ ~d1.threw
             /\ d1.connectionState = "DISCONNECTED"
             /\ ~d1.isConnectedRef
             /\ "wakeLock" \notin f1
                => Attempted(d1) = {} /\ Teardown(d1, {}) = d1

C6_Witness ==
    /\ connectionState = "DISCONNECTED"
    /\ sessionIdRef = NoEpoch
    /\ \A h \in BodyHandles : Snapshot[h] = 0
    /\ \E a \in Calls : /\ ctxState[a] = "closed"
                        /\ stream[a] = "stopped"
                        /\ transport[a] \in {"closing", "closed"}
                        /\ lock[a] = "released"

\* What disconnect() with the release steps in f throwing leaves behind: every
\* release that does not throw has been carried out on its resource, the
\* handles in `cleared` are null and the state is DISCONNECTED.
Isolated(f, cleared) ==
    LET d == Teardown(Snapshot, f)
    IN  /\ d.connectionState = "DISCONNECTED"
        /\ \A h \in cleared : d[h] = 0
        /\ ("transport" \notin f /\ sessionRef # 0)
           => d.transport[sessionRef] \notin {"open", "opening"}
        /\ ("stream" \notin f /\ streamRef # 0) => d.stream[streamRef] = "stopped"
        /\ ("source" \notin f /\ audioSourceRef # 0) => "source" \notin d.wired[audioSourceRef]
        /\ ("processor" \notin f /\ processorNodeRef # 0)
           => "processor" \notin d.wired[processorNodeRef]
        /\ ("analyser" \notin f /\ analyserRef # 0) => "analyser" \notin d.wired[analyserRef]
        /\ ("context" \notin f /\ audioContextRef # 0) => d.ctxState[audioContextRef] = "closed"
        /\ ("wakeLock" \notin f /\ wakeLockRef # 0)
           => d.lock[wakeLockRef] = "released" /\ d.wakeLockRef = 0

\* C7: whichever release steps of disconnect() throw, every other release is
\* still carried out, every stored handle is still cleared and the connection
\* state still ends DISCONNECTED.
C7_ReleaseIsolation ==
    \A f \in SUBSET Attempted(Snapshot) : Isolated(f, BodyHandles \cup {"wakeLockRef"})

\* A source has been created and started for audio message m.
Scheduled(m) == src[m].st # "none"

\* C8: audio messages of one session delivered in order with no interruption,
\* each arriving before the previous buffer's scheduled end: buffer k+1 is
\* scheduled to start where buffer k ends, the buffers start in arrival order
\* and their playback intervals do not overlap.
C8_GapFreeInOrder ==
    interrupts = 0
    => \A m \in Msgs : \A k \in Msgs :
          (/\ k = m + 1
           /\ Scheduled(m)
           /\ Scheduled(k)
           /\ src[k].arr < src[m].start + src[m].dur)
          => /\ src[k].start = src[m].start + src[m].dur
             /\ src[m].start <= src[k].start

\* The step handles an interruption carried by a message of the live session.
InterruptionStep ==
    \/ \E m \in Msgs : \E c \in AudioContents :
          /\ c.intr
          /\ sessionIdRef = currentSessionId[1]
          /\ ~(c.dur > 0 /\ audioContextRef # 0)
          /\ OnMessage(1, m, c)
    \/ \E m \in Msgs :
          /\ msgs[m].pc = "decode"
          /\ msgs[m].c.intr
          /\ analyserRef = msgs[m].ctx
          /\ MessageDecoded(m)

\* C9: handling an interruption message of the live session calls stop() on
\* every playback handle of the pending set, a stop that throws not keeping
\* the others from being stopped, and leaves the pending set empty and the
\* playback cursor at 0.
C9_InterruptionStopsAll ==
    [][InterruptionStep
       => /\ \A h \in sourcesRef :
                /\ src'[h].stops = src[h].stops + 1
                /\ src'[h].st \in {"stopped", src[h].st}
          /\ \E fails \in SUBSET sourcesRef :
                \A h \in sourcesRef \ fails : src'[h].st = "stopped"
          /\ sourcesRef' = {}
          /\ nextStartTimeRef' = 0]_vars

\* Two handles were pending when an interruption was handled: the stop() of one
\* threw, the other is stopped, the set is empty and the cursor is 0.
C9_Witness ==
    /\ interrupts > 0
    /\ sourcesRef = {}
    /\ nextStartTimeRef = 0
    /\ \E h1 \in Msgs : \E h2 \in Msgs :
          /\ h1 # h2
          /\ Scheduled(h1) /\ src[h1].stops = 1 /\ src[h1].st = "playing"
          /\ Scheduled(h2) /\ src[h2].stops = 1 /\ src[h2].st = "stopped"

\* C10: every audio buffer is scheduled to start at a time greater than or
\* equal to its rendering context's clock at the moment it is scheduled, also
\* after an interruption.
C10_StartNotBeforeClock ==
    \A m \in Msgs : Scheduled(m) => src[m].start >= src[m].at

\* The step runs the part of onmessage after the audio part (transcripts,
\* turnComplete, interrupted) for message m with content c, of the live session.
TailStep(m, c) ==
    \/ /\ sessionIdRef = currentSessionId[1]
       /\ ~(c.dur > 0 /\ audioContextRef # 0)
       /\ OnMessage(1, m, c)
    \/ /\ msgs[m].pc = "decode"
       /\ msgs[m].c = c
       /\ analyserRef = msgs[m].ctx
       /\ MessageDecoded(m)

\* C11: handling an interruption message empties the output transcript buffer
\* and leaves the input transcript buffer, the committed log entries, the
\* connection state and the live epoch unchanged.
C11_InterruptionFrame ==
    [][\A m \in Msgs : \A c \in TextContents(m) :
          (c.intr /\ ~c.turn /\ c.inText = << >> /\ TailStep(m, c))
          => /\ currentOutputRef' = << >>
             /\ currentInputRef' = currentInputRef
             /\ logs' = logs
             /\ connectionState' = connectionState
             /\ sessionIdRef' = sessionIdRef]_vars

\* An interruption has been handled with input text waiting and entries logged.
C11_Witness ==
    /\ interrupts > 0
    /\ currentOutputRef = << >>
    /\ Trim(currentInputRef) # << >>
    /\ Len(logs) > 0
    /\ sessionIdRef = currentSessionId[1]
    /\ sessionIdRef # NoEpoch

\* The entries a turn-complete message with content c commits.
Committed(c) ==
    LET input == Trim(currentInputRef \o c.inText)
        output == Trim(currentOutputRef \o c.outText)
    IN  (IF input # << >> THEN <<[role |-> "user", text |-> input]>> ELSE << >>)
        \o (IF output # << >> THEN <<[role |-> "model", text |-> output]>> ELSE << >>)

\* C12: on a turn-complete message each transcript buffer is committed as a log
\* entry (role user for input, model for output) with its trimmed content as
\* text exactly when the trimmed content is not empty, the user entry first.
C12_TurnCompleteCommits ==
    [][\A m \in Msgs : \A c \in TextContents(m) :
          (c.turn /\ TailStep(m, c)) => logs' = logs \o Committed(c)]_vars

\* A turn has committed a user entry and a model entry, in this order.
C12_Witness ==
    \E i \in 1..Len(logs) - 1 :
        /\ logs[i].role = "user" /\ logs[i].text # << >> /\ logs[i].text = Trim(logs[i].text)
        /\ logs[i + 1].role = "model" /\ logs[i + 1].text # << >>

\* C13: after a turn-complete message has been handled both transcript buffers
\* are empty, also one that held only white space and produced no entry.
C13_TurnCompleteResets ==
    [][\A m \in Msgs : \A c \in TextContents(m) :
          (c.turn /\ TailStep(m, c))
          => currentInputRef' = << >> /\ currentOutputRef' = << >>]_vars

\* C14: downsampleBuffer returns its input unchanged when the rates are equal;
\* when inputRate = r * outputRate for an integer r >= 1 and the input has
\* length L, the output has length ceil(L / r), output[i] = input[r * i] for
\* every index i, and no source index is out of range.
C14_Downsample ==
    resampled
    => /\ sampleRate = inputSampleRate => processData = inputData
       /\ \A r \in 1..MaxRate :
             sampleRate = r * inputSampleRate
             => /\ Len(processData) * r >= Len(inputData)
                /\ (Len(processData) - 1) * r < Len(inputData) \/ Len(processData) = 0
                /\ \A i \in 0..(Len(processData) - 1) :
                      /\ r * i < Len(inputData)
                      /\ processData[i + 1] = inputData[r * i + 1]

\* A frame of odd length has been halved: ceil(3 / 2) = 2 samples, the first
\* and the third.
C14_Witness ==
    /\ resampled
    /\ sampleRate = 2 * inputSampleRate
    /\ Len(inputData) = 3
    /\ inputData[1] # inputData[3]
    /\ processData = <<inputData[1], inputData[3]>>

\* The texts of the system entries a failed credential retrieval logs.
CredentialErrors == {"Erro: Falha ao autenticar a IA.",
                     "Chave da API nao configurada corretamente no sistema."}

\* C15: when credential retrieval fails, returns no data or yields an empty
\* token, connect() aborts: no epoch allocated, no audio context created, no
\* transport opened, a system log entry emitted, and the connection state ends
\* DISCONNECTED, not ERROR; the attempt takes no further step.
C15_CredentialFailureAborts ==
    [][\A a \in Calls :
         CredentialFailed(a)
         => /\ connectionState' = "DISCONNECTED"
            /\ cpc'[a] = "done"
            /\ currentSessionId'[a] = NoEpoch
            /\ sessionIdRef' = sessionIdRef
            /\ audioContextRef' = audioContextRef
            /\ ctxState'[a] = "none"
            /\ transport'[a] = "none"
            /\ opc'[a] = "none"
            /\ Len(logs') = Len(logs) + 1
            /\ logs'[Len(logs')].role = "system"
            /\ logs'[Len(logs')].text \in CredentialErrors]_vars

C15_Witness ==
    \E a \in Calls :
        /\ cpc[a] = "done"
        /\ currentSessionId[a] = NoEpoch
        /\ ctxState[a] = "none"
        /\ transport[a] = "none"
        /\ connectionState = "DISCONNECTED"
        /\ Len(logs) > 0
        /\ logs[Len(logs)].text \in CredentialErrors

\* C16: when the live session's transport reports an error, the teardown of
\* disconnect() is run and the connection state after the handler is ERROR,
\* and stays ERROR until connect() or disconnect() is invoked.
C16_ErrorStateAfterOnError ==
    [][/\ \A a \in Calls :
            (OnError(a) /\ sessionIdRef = currentSessionId[a])
            => /\ connectionState' = "ERROR"
               /\ ~isConnectedRef'
               /\ sessionIdRef' = NoEpoch
       /\ (connectionState = "ERROR" /\ connectionState' # "ERROR")
          => Disconnect \/ \E a \in Calls : Connect(a)]_vars

\* Call a's session is stale: it was disconnected and no session is live, or a
\* newer epoch is the live one.
Stale(a) == sessionIdRef = NoEpoch \/ sessionIdRef > currentSessionId[a]

\* The step leaves every handle of the hook null and releases what they held.
ReleasesAll ==
    /\ \A h \in BodyHandles \cup {"wakeLockRef"} : Snapshot'[h] = 0
    /\ sessionRef # 0 => transport'[sessionRef] \notin {"opening", "open"}
    /\ streamRef # 0 => stream'[streamRef] = "stopped"
    /\ audioContextRef # 0 => ctxState'[audioContextRef] = "closed"
    /\ wakeLockRef # 0 => lock'[wakeLockRef] = "released"

C18_MicFailure ==
    [][\A a \in Calls :
         /\ (MicFailed(a) /\ sessionIdRef = currentSessionId[a])
            => /\ Len(logs') = Len(logs) + 1
               /\ logs'[Len(logs')] = SysLog("Microfone nao disponivel.")
               /\ connectionState' = "DISCONNECTED"
               /\ ~isConnectedRef'
               /\ sessionIdRef' = NoEpoch
               /\ transport'[a] \notin {"opening", "open"}
               /\ stream'[a] = "none"
               /\ "processor" \notin wired'[a]
         /\ (opc[a] = "done" /\ stream[a] = "none")
            => (stream'[a] = "none" /\ "processor" \notin wired'[a])]_vars

\* The edges the connection state may take.
StateEdges ==
    {<<"DISCONNECTED", "CONNECTING">>, <<"CONNECTING", "CONNECTED">>,
     <<"CONNECTING", "DISCONNECTED">>, <<"CONNECTING", "ERROR">>,
     <<"CONNECTED", "DISCONNECTED">>, <<"CONNECTED", "ERROR">>,
     <<"ERROR", "DISCONNECTED">>, <<"ERROR", "CONNECTING">>}

\* C19: the connection state changes only along the edges of the state
\* machine; it never goes from DISCONNECTED directly to CONNECTED and ERROR is
\* never entered from DISCONNECTED.
C19_StateEdges ==
    [][connectionState' # connectionState
       => <<connectionState, connectionState'>> \in StateEdges]_vars

\* The one connect() attempt is suspended at one of its awaits.
Suspended ==
    \/ cpc[1] \in {"cred", "resume", "open"}
    \/ opc[1] \in {"delay", "wake", "mic"}

\* C20: with one connect() attempt and no later connect(), a state that is
\* DISCONNECTED while the attempt is suspended is one in which disconnect() was
\* invoked during the attempt; from then on the attempt does not set CONNECTING
\* or CONNECTED, does not mark a session live and does not allocate or keep a
\* live epoch: the state stays DISCONNECTED.
C20_CancelledAttemptStaysDown ==
    [][(Suspended /\ connectionState = "DISCONNECTED" /\ ~isConnectedRef
                  /\ sessionIdRef = NoEpoch)
       => /\ connectionState' = "DISCONNECTED"
          /\ ~isConnectedRef'
          /\ sessionIdRef' = NoEpoch]_vars

\* C21: a stored transport handle that is not null belongs to the session whose
\* epoch is the live one; no handle of a disconnected or superseded session is
\* stored.
C21_StoredTransportIsLive ==
    sessionRef # 0
    => (sessionIdRef # NoEpoch /\ currentSessionId[sessionRef] = sessionIdRef)

\* C22: every epoch connect() allocates differs from the invalid value of
\* disconnect() and is strictly greater than every epoch allocated before it, so
\* no two connection attempts carry the same epoch, whether or not the clock
\* advanced between their allocations.
C22_EpochsUniqueOrdered ==
    [][\A a \in Calls :
         currentSessionId'[a] # currentSessionId[a]
         => /\ currentSessionId'[a] # NoEpoch
            /\ \A b \in Calls \ {a} : currentSessionId'[a] > currentSessionId[b]]_vars

\* What disconnect() leaves behind when it returns.
AfterDisconnect ==
    /\ connectionState' = "DISCONNECTED"
    /\ sessionIdRef' = NoEpoch
    /\ ~isConnectedRef'
    /\ sessionRef' = 0
    /\ streamRef' = 0
    /\ processorNodeRef' = 0
    /\ analyserRef' = 0
    /\ audioContextRef' = 0
    /\ analyser' = 0
    /\ volume' = 0

\* Call a's session still has a callback to come: its onopen or one of onopen's
\* continuations, or an event of its socket.
CallbackPending(a) ==
    \/ cpc[a] = "open"
    \/ opc[a] \in {"delay", "mic"}
    \/ transport[a] \in {"opening", "open", "closing"}

\* C23: when disconnect() returns the state is DISCONNECTED, the epoch is the
\* invalid value, no session is marked live, the transport, stream, capture
\* node, analysis node and rendering-context handles are null, the exposed
\* analyser is null and the volume is 0; and from then on no callback of a
\* session that was disconnected finds its own epoch live again.
C23_AfterDisconnect ==
    [][/\ Disconnect => AfterDisconnect
       /\ \A a \in Calls :
            (sessionIdRef = NoEpoch /\ currentSessionId[a] # NoEpoch)
            => ~(sessionIdRef' = currentSessionId[a] /\ CallbackPending(a)')]_vars

\* disconnect() has run during or after the one connect() call and left the
\* hook down.
Down ==
    /\ cpc[1] # "idle"
    /\ connectionState = "DISCONNECTED"
    /\ sessionIdRef = NoEpoch
    /\ ~isConnectedRef

\* Every asynchronous operation of the call has completed; an open call whose
\* socket closed before it opened has nothing left to wait for.
Settled ==
    /\ \/ cpc[1] \in {"ignored", "done"}
       \/ cpc[1] = "open" /\ transport[1] = "closed"
    /\ opc[1] \in {"none", "aborted", "done"}

\* No local resource is held: no transport open or opening, no running
\* microphone track, no open rendering context, no unreleased wake lock.
NoResourceHeld ==
    \A a \in Calls :
        /\ transport[a] \notin {"opening", "open"}
        /\ stream[a] # "live"
        /\ ctxState[a] \notin {"suspended", "running"}
        /\ lock[a] # "held"

\* C24: once disconnect() has been called and no connect() follows, the
\* operations that were pending complete and no local resource remains held.
C24_DisconnectReleasesAll == Down ~> (Settled /\ NoResourceHeld)

\* C25: at most one wake lock is unreleased at any time, and it is the one the
\* stored reference points to: no lock is requested while an unreleased one is
\* held, whatever the interleaving of the requests of onopen and of the
\* visibility handler with the releases.
C25_OneWakeLock ==
    \A l \in Locks : lock[l] = "held" => wakeLockRef = l

\* C26: a wake-lock request of onopen that fails leaves the connection state,
\* the live flag and the epoch as they were and goes on to request the
\* microphone; a wake-lock release that fails inside disconnect() leaves
\* disconnect() with the outcome it has otherwise.
C26_WakeLockFailureIgnored ==
    [][/\ (WakeLockSettled(1) /\ lock'[1] # "held")
          => /\ UNCHANGED <<connectionState, isConnectedRef, sessionIdRef>>
             /\ opc'[1] = "mic"
       /\ ((Disconnect \/ DisconnectFaulty) /\ wakeLockRef # 0 /\ wakeLockRef' # 0)
          => /\ connectionState' = "DISCONNECTED"
             /\ ~isConnectedRef'
             /\ sessionIdRef' = NoEpoch]_vars

\* The wake-lock request of onopen failed: the session is CONNECTED and live
\* and its microphone request is under way.
C26_Witness ==
    /\ opc[1] = "mic"
    /\ lock[1] = "none"
    /\ connectionState = "CONNECTED"
    /\ isConnectedRef
    /\ sessionIdRef = currentSessionId[1]

\* What the visibility handler never touches.
VisKeeps == UNCHANGED <<connectionState, isConnectedRef, sessionIdRef, sessionRef, logs>>

\* C27: when the document becomes visible the handler requests the wake lock
\* only if a session is marked live and resumes the stored context only if it
\* is suspended; no step of the handler, whether its lock request or its resume
\* succeeds or fails, changes the connection state, the live flag, the epoch,
\* the transport handle or the log; when the document becomes hidden the
\* handler requests and resumes nothing and changes nothing of the hook.
C27_VisibilityHandler ==
    [][/\ \A v \in Vis :
            /\ VisibilityVisible(v)
               => /\ vpc'[v] = "wake" => isConnectedRef
                  /\ vpc'[v] = "resume" => ctxState[vctx'[v]] = "suspended"
                  /\ VisKeeps
            /\ VisWakeLockSettled(v)
               => /\ vpc'[v] = "resume" => ctxState[vctx'[v]] = "suspended"
                  /\ VisKeeps
            /\ VisResumeSettled(v)
               => /\ \A a \in Calls :
                        ctxState'[a] # ctxState[a] => ctxState[a] = "suspended"
                  /\ VisKeeps
       /\ VisibilityHidden
          => /\ VisKeeps
             /\ UNCHANGED <<vpc, vctx, analyser, volume, audioContextRef, audioSourceRef,
                            processorNodeRef, analyserRef, streamRef, wakeLockRef,
                            transport, ctxState, stream, wired>>]_vars

\* A run of the handler for a live session has been granted a lock and has
\* resumed the suspended context.
C27_Witness ==
    \E v \in Vis :
        /\ vpc[v] = "done"
        /\ lock[VisLock(v)] = "held"
        /\ vctx[v] # 0
        /\ ctxState[vctx[v]] = "running"
        /\ isConnectedRef
        /\ connectionState = "CONNECTED"

\* Call 1's session is the live one: the guard at the head of its capture
\* callback passes.
CaptureLive == isConnectedRef /\ sessionIdRef = currentSessionId[1]

\* C28: a capture frame whose send fails changes nothing but the volume level:
\* the connection state, the live flag, the epoch and the capture node stay as
\* they were and nothing is released; and the frame that follows a failed one
\* is resampled and handed to the transport like any other.
C28_SendFailureCaught ==
    [][\A f \in CaptureInputs : \A ok \in BOOLEAN :
         (CaptureFrame(1, f, ok) /\ CaptureLive)
         => /\ ~ok
               => /\ frames' = Append(frames, Sent(1, FALSE))
                  /\ UNCHANGED <<connectionState, isConnectedRef, sessionIdRef,
                                 processorNodeRef, audioSourceRef, streamRef, sessionRef,
                                 audioContextRef, analyserRef, wakeLockRef, analyser,
                                 transport, ctxState, stream, wired, lock, logs>>
            /\ (frames # << >> /\ frames[Len(frames)].out = "failed")
               => /\ Len(frames') = Len(frames) + 1
                  /\ frames'[Len(frames')] = Sent(1, ok)
                  /\ processData' = downsampleBuffer(f, sampleRate, inputSampleRate)]_vars

\* A frame of the live session was sent after the send of the frame before it
\* had failed, at a context rate that needs resampling.
C28_Witness ==
    /\ \E i \in 1..(Len(frames) - 1) : frames[i].out = "failed" /\ frames[i + 1].out = "sent"
    /\ sampleRate # inputSampleRate
    /\ Len(processData) < Len(inputData)
    /\ connectionState = "CONNECTED"
    /\ CaptureLive
    /\ processorNodeRef = 1

\* C29: after every emission the log holds at most 50 entries, one more than
\* before unless it was full, and they are the most recently emitted entries,
\* unaltered and in the order of their emission, the newest last.
C29_LogCapped ==
    [][EmitLog
       => /\ Len(logs') <= LogCap
          /\ Len(logs') = (IF Len(logs) < LogCap THEN Len(logs) + 1 ELSE LogCap)
          /\ \A i \in 1..Len(logs') : logs'[i] = LogEntry(now - Len(logs') + i)]_vars

\* The log is full after the last emission: the oldest entries have gone and
\* the newest is at the end.
C29_Witness ==
    /\ now = MaxEmit + 1
    /\ Len(logs) = LogCap
    /\ logs[LogCap] = LogEntry(MaxEmit)
    /\ logs[1] = LogEntry(MaxEmit + 1 - LogCap)

\* The visible character of message m's fragment occurs in the text.
Occurs(text, m) == \E i \in 1..Len(text) : text[i] = m

\* The committed entries of a role that hold the fragment of message m.
CommittedIn(l, role, m) ==
    {i \in 1..Len(l) : l[i].role = role /\ Occurs(l[i].text, m)}

\* No fragment is in two committed entries of its role, twice in one entry, or
\* both committed and still in its buffer.
CommittedOnce(l, input, output) ==
    \A m \in Msgs :
        /\ Cardinality(CommittedIn(l, "user", m)) <= 1
        /\ Cardinality(CommittedIn(l, "model", m)) <= 1
        /\ \A i \in 1..Len(l) :
              l[i].role # "system"
              => Cardinality({j \in 1..Len(l[i].text) : l[i].text[j] = m}) <= 1
        /\ CommittedIn(l, "user", m) # {} => ~Occurs(input, m)
        /\ CommittedIn(l, "model", m) # {} => ~Occurs(output, m)

\* Message k, received earlier, still waits to append a fragment with text.
FragmentWaiting(k) ==
    /\ msgs'[k].pc \in {"resume", "decode"}
    /\ Trim(msgs'[k].c.inText \o msgs'[k].c.outText) # << >>

\* C30: no transcript fragment is committed twice, and once a turn-complete
\* message has been handled nothing received up to it is left to commit: the
\* buffers hold no text and no earlier message is still to append its
\* fragment, so that a second turn-complete message with no fragment received
\* in between produces no log entry.
C30_NoDoubleCommit ==
    [][/\ CommittedOnce(logs', currentInputRef', currentOutputRef')
       /\ \A m \in Msgs : \A c \in TextContents(m) :
            (c.turn /\ TailStep(m, c))
            => /\ Trim(currentInputRef') = << >>
               /\ Trim(currentOutputRef') = << >>
               /\ \A k \in Msgs : k < m => ~FragmentWaiting(k)]_vars

\* What the handling of an inbound message acts on: the playback cursor and
\* pending set, the sources, the transcript buffers and the log.
MessageEffects ==
    <<nextStartTimeRef, sourcesRef, src, currentInputRef, currentOutputRef, logs>>

\* The step is one of the handling of message m.
MessageStep(m) ==
    \/ \E c \in TextContents(m) : OnMessage(1, m, c)
    \/ MessageDecoded(m)

\* Message k has arrived and its handling is suspended at an await.
Waiting(k) == msgs[k].pc \in {"resume", "decode"}

\* C31: inbound messages take effect in arrival order without interleaving:
\* when a step of the handling of a message has an effect, the handling of
\* every message that arrived before it is over, so that a fragment carried
\* with audio is appended before a later turn-complete flushes the buffers.
C31_ArrivalOrder ==
    [][\A m \in Msgs :
         (MessageStep(m) /\ MessageEffects' # MessageEffects)
         => \A k \in Msgs : k < m => ~Waiting(k)]_vars

\* disconnect() has run since message m was suspended: no epoch is live, or the
\* context the handler holds has been closed.
CutOff(m) == sessionIdRef = NoEpoch \/ ctxState[msgs[m].ctx] = "closed"

\* C32: a message whose handling passed the epoch check and was suspended at
\* the context resume or at the audio decode, and which resumes after
\* disconnect() has run, schedules no playback, does not move the cursor, adds
\* nothing to the pending set, appends no transcript and emits no log entry.
C32_SuspendedMessageInert ==
    [][\A m \in Msgs :
         (Waiting(m) /\ CutOff(m) /\ (MessageResumed(m) \/ MessageDecoded(m)))
         => UNCHANGED MessageEffects]_vars

\* A message that carried audio, transcripts and turnComplete was suspended,
\* disconnect() ran, and its handling has ended with nothing scheduled, nothing
\* appended and nothing committed.
C32_Witness ==
    \E m \in Msgs :
        /\ msgs[m].pc = "thrown"
        /\ src[m].st = "none"
        /\ sessionIdRef = NoEpoch
        /\ ctxState[1] = "closed"

\* C33: the pending playback set holds exactly the handles that were scheduled
\* and have neither played to their end nor been cleared by an interruption;
\* once every scheduled buffer has ended the set is empty.
C33_PendingSetExact ==
    sourcesRef = {m \in Msgs : Scheduled(m) /\ src[m].st = "playing" /\ src[m].stops = 0}

\* Two buffers were scheduled and both have played to their end: the pending
\* set is empty.
C33_Witness ==
    /\ sourcesRef = {}
    /\ Cardinality({m \in Msgs : Scheduled(m) /\ src[m].st = "ended"}) >= 2
    /\ \A m \in Msgs : Scheduled(m) => src[m].st = "ended"

\* Call a's session follows a disconnect(): an earlier session's context has
\* been closed.
FollowsDisconnect(a) ==
    \E b \in Calls : b # a /\ currentSessionId[b] # NoEpoch /\ ctxState[b] = "closed"

\* The step schedules the first audio buffer of call a's session.
FirstScheduled(a, m) ==
    /\ MessageDecoded(m)
    /\ msgs[m].ctx = a
    /\ src'[m].st = "playing"
    /\ \A k \in Msgs : Scheduled(k) => src[k].ctx # a

\* C34: after disconnect() and a new connect(), the first audio buffer of the
\* new session starts at the current clock of the new rendering context and is
\* alone in the pending set: the cursor and the pending set of the session
\* before do not carry over.
C34_FreshCursor ==
    [][\A a \in Calls : \A m \in Msgs :
         (FollowsDisconnect(a) /\ FirstScheduled(a, m))
         => /\ src'[m].start = ctxTime[a]
            /\ sourcesRef' = {m}]_vars

\* Call a's session is the live one and every other session is an earlier one
\* that has ended: its epoch is smaller and it has been torn down.
LaterSession(a) ==
    /\ sessionIdRef = currentSessionId[a]
    /\ sessionIdRef # NoEpoch
    /\ \A b \in Calls \ {a} :
          currentSessionId[b] # NoEpoch
          => (currentSessionId[b] < currentSessionId[a] /\ ctxState[b] = "closed")

\* C35: transcript text received during one session is never committed during
\* a later one: when the sessions before have ended, the entries a
\* turn-complete message of the live session commits hold only text received
\* in that session.
C35_NoCarryOver ==
    [][\A a \in Calls : \A m \in Msgs : \A c \in TurnContents(a) :
         (c.turn /\ LaterSession(a) /\ OnMessage(a, m, c))
         => \A i \in (Len(logs) + 1)..Len(logs') :
               \A j \in 1..Len(logs'[i].text) : logs'[i].text[j] \in {0, a}]_vars

\* C36: the live flag and the connection state agree: a session is marked live
\* only while the state is CONNECTED and the live epoch is valid, and no session
\* is marked live while the state is DISCONNECTED or ERROR, also when two
\* connect() attempts overlap.
C36_LiveFlagAgrees ==
    /\ isConnectedRef => (connectionState = "CONNECTED" /\ sessionIdRef # NoEpoch)
    /\ connectionState \in {"DISCONNECTED", "ERROR"} => ~isConnectedRef

C38_StaleMicStopped ==
    [][\A a \in Calls :
         /\ (opc[a] = "mic" /\ Stale(a) /\ opc'[a] = "mic")
            => (sessionIdRef' = NoEpoch \/ sessionIdRef' > currentSessionId'[a])
         /\ (MicGranted(a) /\ Stale(a))
            => /\ stream'[a] = "stopped"
               /\ wired'[a] = wired[a]
               /\ "processor" \notin wired'[a]
               /\ UNCHANGED <<streamRef, audioSourceRef, processorNodeRef>>
               /\ streamRef' # a
         /\ (stream[a] = "stopped" /\ opc[a] = "done")
            => (stream'[a] = "stopped" /\ "processor" \notin wired'[a])]_vars

\* The microphone of a session was granted after disconnect() and a later
\* connect() had made the session stale; the stream is stopped and the later
\* session is the live one.
C38_Witness ==
    \E a \in Calls :
        /\ opc[a] = "done"
        /\ stream[a] = "stopped"
        /\ Superseded(a)
        /\ streamRef # a
        /\ wired[a] \cap {"source", "processor"} = {}
        /\ connectionState = "CONNECTED"

\* C39: when every pending credential query, context resume, transport open
\* and handshake delay eventually completes or fails, a connection state of
\* CONNECTING is always eventually left for CONNECTED, DISCONNECTED or ERROR,
\* whichever attempt set it and whether or not that attempt is superseded or
\* fails after its epoch has gone stale.
C39_LeavesConnecting ==
    (connectionState = "CONNECTING")
        ~> (connectionState \in {"CONNECTED", "DISCONNECTED", "ERROR"})

\* The attempt that set CONNECTING was superseded by an older call that drew
\* its epoch later; its onopen was aborted as stale and the state was settled
\* by the other call.
C39_Witness ==
    /\ opc[2] = "aborted"
    /\ Superseded(2)
    /\ cpc[1] = "done"
    /\ connectionState \in {"CONNECTED", "DISCONNECTED"}
    /\ sessionIdRef = currentSessionId[1]

====
